---- MODULE Spec2Model ----
(***************************************************************************)
(* A model of the textured-cube demo: main() of cube.go (two textures) and *)
(* of its one-texture sibling, with shaderProgFromFile, compileShader and  *)
(* loadTexture, run against an explicit OpenGL / GLFW context.             *)
(*                                                                         *)
(* main is a straight line of calls followed by the render loop; pc is the *)
(* position in it.  The graphics context is the record gl.  What the       *)
(* environment decides (a file that cannot be read, a shader the driver    *)
(* rejects, the clock, a close request) is a nondeterministic choice.      *)
(***************************************************************************)
EXTENDS Integers, Sequences, FiniteSets

(***************************************************************************)
(* Bounds of the model.                                                    *)
(***************************************************************************)
\* Frames rendered before the window is made to close.
MaxFrames == 3
\* Largest clock reading, in ticks.
MaxTime == 12
\* Bits of significand of the model's binary floating point (float64: 53).
MantissaBits == 3
\* Largest image width and height, in pixels.
MaxDim == 2

(***************************************************************************)
(* Program constants.                                                      *)
(***************************************************************************)
\* Floats per vertex: the stride 5*4 bytes of gl.VertexAttribPointer.
FloatsPerVertex == 5
\* Bytes per RGBA pixel: the 4 of rgba.Rect.Size().X*4.
BytesPerPixel == 4

\* Exit statuses of the Go runtime: return from main, log.Fatal, panic.
ExitOK == 0
ExitFatal == 1
ExitPanic == 2

\* cubeVertices, every float times 10.
cubeVertices ==
  << -5, -5, -5,  0,  0,    5, -5, -5, 10,  0,    5,  5, -5, 10, 10,
      5,  5, -5, 10, 10,   -5,  5, -5,  0, 10,   -5, -5, -5,  0,  0,
     -5, -5,  5,  0,  0,    5, -5,  5, 10,  0,    5,  5,  5, 10, 10,
      5,  5,  5, 10, 10,   -5,  5,  5,  0, 10,   -5, -5,  5,  0,  0,
     -5,  5,  5, 10,  0,   -5,  5, -5, 10, 10,   -5, -5, -5,  0, 10,
     -5, -5, -5,  0, 10,   -5, -5,  5,  0,  0,   -5,  5,  5, 10,  0,
      5,  5,  5, 10,  0,    5,  5, -5, 10, 10,    5, -5, -5,  0, 10,
      5, -5, -5,  0, 10,    5, -5,  5,  0,  0,    5,  5,  5, 10,  0,
     -5, -5, -5,  0, 10,    5, -5, -5, 10, 10,    5, -5,  5, 10,  0,
      5, -5,  5, 10,  0,   -5, -5,  5,  0,  0,   -5, -5, -5,  0, 10,
     -5,  5, -5,  0, 10,    5,  5, -5, 10, 10,    5,  5,  5, 10,  0,
      5,  5,  5, 10,  0,   -5,  5,  5,  0,  0,   -5,  5, -5,  0, 10 >>

\* The vertex count main passes to gl.DrawArrays: 6*2*3.
DrawCount == 6 * 2 * 3

VARIABLES
  nTextures,      \* 2: cube.go; 1: the one-texture program
  pc,             \* position in main
  exitStatus,     \* -1 while the process runs
  deferred,       \* defer glfw.Terminate() has been registered
  glfwTerminated, \* glfw.Terminate has run
  failure,        \* the initialization failure that happened, or "none"
  gl,             \* the graphics context
  program, progErr,          \* what shaderProgFromFile returned
  vertShader, fragShader,    \* shaderProgFromFile's locals
  vao,
  texture, texErr,           \* what the latest loadTexture returned
  rgba,                      \* loadTexture's buffer: [w, h, stride]
  texture1, texture2,
  angle, previousTime, deltaTime,
  startTime,      \* the clock reading taken just before the loop
  inexact,        \* some floating-point result of the loop was rounded
  shouldClose,    \* the window's close flag
  frames,         \* iterations begun
  frame,          \* the calls of the current iteration, in order
  draws,          \* the gl.DrawArrays calls issued: <<first, count>> each
  uniformLog      \* every uniform write: its name and the program then current

procVars == <<pc, exitStatus, deferred, glfwTerminated, failure>>
shaderVars == <<program, progErr, vertShader, fragShader>>
texVars == <<texture, texErr, rgba, texture1, texture2>>
timeVars == <<angle, previousTime, deltaTime, startTime, inexact>>
loopVars == <<shouldClose, frames, frame, draws>>
vars == <<nTextures, procVars, gl, shaderVars, vao, texVars, timeVars,
          loopVars, uniformLog>>

(***************************************************************************)
(* float64 arithmetic, with MantissaBits bits of significand instead of    *)
(* 53: a value is a natural number of ticks, representable when it has at  *)
(* most MantissaBits significant bits; a result is rounded to the nearest   *)
(* representable value, ties to the even significand.                      *)
(***************************************************************************)
RECURSIVE Pow2(_)
Pow2(n) == IF n = 0 THEN 1 ELSE 2 * Pow2(n - 1)

RECURSIVE BitLen(_)
BitLen(n) == IF n = 0 THEN 0 ELSE 1 + BitLen(n \div 2)

Ulp(n) == IF BitLen(n) <= MantissaBits THEN 1 ELSE Pow2(BitLen(n) - MantissaBits)

RoundFloat(n) ==
  LET q == Ulp(n)
      lo == (n \div q) * q
      r == n % q
  IN  IF 2 * r < q THEN lo
      ELSE IF 2 * r > q THEN lo + q
      ELSE IF (lo \div q) % 2 = 0 THEN lo ELSE lo + q

Representable(n) == RoundFloat(n) = n

\* time - previousTime
FloatSub(a, b) == RoundFloat(a - b)

\* angle += deltaTime
FloatAdd(a, b) == RoundFloat(a + b)

\* The values glfw.GetTime() can return at or after t: the timer is monotonic.
ClockValues(t) == { n \in t..MaxTime : Representable(n) }

(***************************************************************************)
(* The graphics context.                                                   *)
(***************************************************************************)
NoProgram == 0
NoTexture == 0

\* The uniforms main looks up with gl.GetUniformLocation.
UniformNames == {"texture1", "texture2", "model", "view", "projection"}

GLInit ==
  [ shaders     |-> {},          \* shader objects that exist
    vertexStage |-> {},          \* those created as gl.VERTEX_SHADER
    fragmentStage |-> {},        \* those created as gl.FRAGMENT_SHADER
    compiled    |-> {},          \* shader objects whose COMPILE_STATUS is true
    flagged     |-> {},          \* shader objects flagged for deletion
    programs    |-> {},          \* program objects that exist
    attached    |-> {},          \* shader objects attached to the program
    linked      |-> {},          \* programs whose LINK_STATUS is true
    current     |-> NoProgram,   \* gl.UseProgram
    textures    |-> {},          \* texture objects that exist
    uploaded    |-> {},          \* textures given an image by gl.TexImage2D
    active      |-> 0,           \* gl.ActiveTexture
    bound       |-> [u \in 0..1 |-> NoTexture], \* TEXTURE_2D binding per unit
    vaos        |-> {},
    boundVAO    |-> 0,
    bufferLen   |-> 0,           \* floats in the ARRAY_BUFFER
    uniforms    |-> [n \in UniformNames |-> "unset"], \* of the program
    depthTest   |-> FALSE ]

\* gl.CreateShader / gl.CreateProgram / gl.GenTextures: a name not in use.
NewName(used) == Cardinality(used) + 1

Init ==
  /\ nTextures \in {1, 2}
  /\ pc = "glfwInit"
  /\ exitStatus = -1
  /\ deferred = FALSE
  /\ glfwTerminated = FALSE
  /\ failure = "none"
  /\ gl = GLInit
  /\ program = 0 /\ progErr = "nil"
  /\ vertShader = 0 /\ fragShader = 0
  /\ vao = 0
  /\ texture = 0 /\ texErr = "nil"
  /\ rgba = [w |-> 0, h |-> 0, stride |-> 0]
  /\ texture1 = 0 /\ texture2 = 0
  /\ angle = 0 /\ previousTime = 0 /\ deltaTime = 0
  /\ startTime = 0
  /\ inexact = FALSE
  /\ shouldClose = FALSE
  /\ frames = 0
  /\ frame = <<>>
  /\ draws = <<>>
  /\ uniformLog = {}

(***************************************************************************)
(* How the process ends.                                                   *)
(***************************************************************************)
\* log.Fatal, log.Fatalln: os.Exit(1); deferred calls do not run.
LogFatal ==
  /\ pc' = "exited"
  /\ exitStatus' = ExitFatal
  /\ UNCHANGED <<deferred, glfwTerminated>>

\* panic(err): the deferred calls run, then the runtime exits with status 2.
Panic ==
  /\ pc' = "exited"
  /\ exitStatus' = ExitPanic
  /\ glfwTerminated' = (glfwTerminated \/ deferred)
  /\ UNCHANGED deferred

\* main returns: the deferred calls run, the process exits with status 0.
ReturnFromMain ==
  /\ pc' = "exited"
  /\ exitStatus' = ExitOK
  /\ glfwTerminated' = (glfwTerminated \/ deferred)
  /\ UNCHANGED deferred

Goto(l) ==
  /\ pc' = l
  /\ UNCHANGED <<exitStatus, deferred, glfwTerminated>>

(***************************************************************************)
(* main, up to the shader program.                                         *)
(***************************************************************************)
\* glfw.Init(); log.Fatalln on an error, else defer glfw.Terminate().
GlfwInit ==
  /\ pc = "glfwInit"
  /\ \/ /\ pc' = "createWindow"
        /\ deferred' = TRUE
        /\ UNCHANGED <<exitStatus, glfwTerminated, failure>>
     \/ /\ failure' = "glfw init"
        /\ LogFatal
  /\ UNCHANGED <<nTextures, gl, shaderVars, vao, texVars, timeVars, loopVars,
                 uniformLog>>

\* The window hints and glfw.CreateWindow; panic on an error.
CreateWindow ==
  /\ pc = "createWindow"
  /\ \/ /\ Goto("glInit")
        /\ UNCHANGED failure
     \/ /\ failure' = "window creation"
        /\ Panic
  /\ UNCHANGED <<nTextures, gl, shaderVars, vao, texVars, timeVars, loopVars,
                 uniformLog>>

\* window.MakeContextCurrent(), gl.Init() (panic on an error),
\* gl.Enable(gl.DEPTH_TEST).
GlInit ==
  /\ pc = "glInit"
  /\ \/ /\ Goto("readVert")
        /\ gl' = [gl EXCEPT !.depthTest = TRUE]
        /\ UNCHANGED failure
     \/ /\ failure' = "gl init"
        /\ Panic
        /\ UNCHANGED gl
  /\ UNCHANGED <<nTextures, shaderVars, vao, texVars, timeVars, loopVars,
                 uniformLog>>

(***************************************************************************)
(* shaderProgFromFile and compileShader.                                   *)
(***************************************************************************)
\* ioutil.ReadFile(vertShaderPath); log.Fatal on an error.
ReadVertFile ==
  /\ pc = "readVert"
  /\ \/ /\ Goto("readFrag")
        /\ UNCHANGED failure
     \/ /\ failure' = "shader file read"
        /\ LogFatal
  /\ UNCHANGED <<nTextures, gl, shaderVars, vao, texVars, timeVars, loopVars,
                 uniformLog>>

\* ioutil.ReadFile(fragShaderPath); log.Fatal on an error.
ReadFragFile ==
  /\ pc = "readFrag"
  /\ \/ /\ Goto("compileVert")
        /\ UNCHANGED failure
     \/ /\ failure' = "shader file read"
        /\ LogFatal
  /\ UNCHANGED <<nTextures, gl, shaderVars, vao, texVars, timeVars, loopVars,
                 uniformLog>>

\* compileShader(source, shaderType) in context g, the driver accepting the
\* source or not: the shader object is created either way, and returned only
\* when it compiled.
compileShader(g, shaderType, accepted) ==
  LET shader == NewName(g.shaders)
      g1 == [g EXCEPT !.shaders = @ \cup {shader},
                      !.vertexStage =
                          IF shaderType = "VERTEX_SHADER"
                          THEN @ \cup {shader} ELSE @,
                      !.fragmentStage =
                          IF shaderType = "FRAGMENT_SHADER"
                          THEN @ \cup {shader} ELSE @]
  IN  IF accepted
      THEN [gl |-> [g1 EXCEPT !.compiled = @ \cup {shader}],
            shader |-> shader, err |-> "nil"]
      ELSE [gl |-> g1, shader |-> 0, err |-> "failed to compile"]

\* fragShader, err := compileShader(vertSource, gl.VERTEX_SHADER): the vertex
\* stage, kept in the local named fragShader; return 0, err on an error.
CompileVertexStage ==
  /\ pc = "compileVert"
  /\ \E accepted \in BOOLEAN :
       LET r == compileShader(gl, "VERTEX_SHADER", accepted)
       IN  /\ gl' = r.gl
           /\ fragShader' = r.shader
           /\ IF r.err = "nil"
              THEN /\ Goto("compileFrag")
                   /\ UNCHANGED <<program, progErr, failure>>
              ELSE /\ Goto("programCheck")
                   /\ program' = 0
                   /\ progErr' = r.err
                   /\ failure' = "shader compile"
  /\ UNCHANGED <<nTextures, vertShader, vao, texVars, timeVars, loopVars,
                 uniformLog>>

\* vertShader, err := compileShader(fragSource, gl.FRAGMENT_SHADER): the
\* fragment stage, kept in the local named vertShader.
CompileFragmentStage ==
  /\ pc = "compileFrag"
  /\ \E accepted \in BOOLEAN :
       LET r == compileShader(gl, "FRAGMENT_SHADER", accepted)
       IN  /\ gl' = r.gl
           /\ vertShader' = r.shader
           /\ IF r.err = "nil"
              THEN /\ Goto("link")
                   /\ UNCHANGED <<program, progErr, failure>>
              ELSE /\ Goto("programCheck")
                   /\ program' = 0
                   /\ progErr' = r.err
                   /\ failure' = "shader compile"
  /\ UNCHANGED <<nTextures, fragShader, vao, texVars, timeVars, loopVars,
                 uniformLog>>

\* gl.DeleteShader(shader): a shader object attached to a program object is
\* only flagged for deletion, and exists until it is detached.
DeleteShader(g, shader) ==
  IF shader \in g.attached
  THEN [g EXCEPT !.flagged = @ \cup {shader}]
  ELSE [g EXCEPT !.shaders = @ \ {shader}]

\* LinkAndReturn without the LINK_STATUS check.
LinkAndReturnUnchecked(g, vs, fs, status) ==
  LET prog == NewName(g.programs)
      g1 == [g EXCEPT !.programs = @ \cup {prog},
                      !.attached = @ \cup {vs, fs},
                      !.linked = IF status THEN @ \cup {prog} ELSE @]
  IN  [gl |-> DeleteShader(DeleteShader(g1, vs), fs),
       program |-> prog, err |-> "nil"]

\* gl.CreateProgram, two gl.AttachShader, gl.LinkProgram, the LINK_STATUS
\* check, and on success the two gl.DeleteShader: what shaderProgFromFile
\* returns when the linker answers `status`.
LinkAndReturn(g, vs, fs, status) ==
  LET prog == NewName(g.programs)
      g1 == [g EXCEPT !.programs = @ \cup {prog},
                      !.attached = @ \cup {vs, fs},
                      !.linked = IF status THEN @ \cup {prog} ELSE @]
  IN  IF ~status
      THEN [gl |-> g1, program |-> 0, err |-> "failed to link program"]
      ELSE [gl |-> DeleteShader(DeleteShader(g1, vs), fs),
            program |-> prog, err |-> "nil"]

\* The rest of shaderProgFromFile, from gl.CreateProgram to its return.
LinkProgram ==
  /\ pc = "link"
  /\ \E status \in BOOLEAN :
       LET r == LinkAndReturn(gl, vertShader, fragShader, status)
       IN  /\ gl' = r.gl
           /\ program' = r.program
           /\ progErr' = r.err
           /\ failure' = IF r.err = "nil" THEN failure ELSE "program link"
  /\ Goto("programCheck")
  /\ UNCHANGED <<nTextures, vertShader, fragShader, vao, texVars, timeVars,
                 loopVars, uniformLog>>

\* program, err := shaderProgFromFile(...); if err != nil { panic(err) }.
ProgramCheck ==
  /\ pc = "programCheck"
  /\ IF progErr # "nil" THEN Panic ELSE Goto("setup")
  /\ UNCHANGED <<nTextures, failure, gl, shaderVars, vao, texVars, timeVars,
                 loopVars, uniformLog>>

(***************************************************************************)
(* main, from the shader program to the render loop.                       *)
(***************************************************************************)
\* gl.UseProgram(program), the vertex array object, the vertex buffer with
\* cubeVertices, and the two vertex attributes.
Setup ==
  /\ pc = "setup"
  /\ LET v == NewName(gl.vaos)
     IN  /\ vao' = v
         /\ gl' = [gl EXCEPT !.current = program,
                             !.vaos = @ \cup {v},
                             !.boundVAO = v,
                             !.bufferLen = Len(cubeVertices)]
  /\ Goto("textureUniforms")
  /\ UNCHANGED <<nTextures, failure, shaderVars, texVars, timeVars, loopVars,
                 uniformLog>>

\* gl.Uniform1i, gl.UniformMatrix4fv: a write to the uniform `name` of the
\* program that is current; GL_INVALID_OPERATION, and no write, when no
\* linked program is current.
Uniform(g, name, value) ==
  IF g.current \in g.linked
  THEN [g EXCEPT !.uniforms[name] = value]
  ELSE g

\* What uniformLog keeps of a write made in context g.
Written(g, name) == [name |-> name, current |-> g.current]

\* gl.Uniform1i(textureUniform1, 0) and, in the two-texture program,
\* gl.Uniform1i(textureUniform2, 1).
TextureUniforms ==
  /\ pc = "textureUniforms"
  /\ LET g1 == Uniform(gl, "texture1", "unit 0")
     IN  IF nTextures = 2
         THEN /\ gl' = Uniform(g1, "texture2", "unit 1")
              /\ uniformLog' = uniformLog \cup
                   {Written(gl, "texture1"), Written(g1, "texture2")}
         ELSE /\ gl' = g1
              /\ uniformLog' = uniformLog \cup {Written(gl, "texture1")}
  /\ Goto("loadTexture1")
  /\ UNCHANGED <<nTextures, failure, shaderVars, vao, texVars, timeVars,
                 loopVars>>

(***************************************************************************)
(* loadTexture.                                                            *)
(***************************************************************************)
\* The buffers image.NewRGBA can hand back for a decoded image: its Rect is
\* the image's bounds, and its Stride, which loadTexture checks and does not
\* set, is the tight width*4 or a padded row.
Buffers ==
  { [w |-> w, h |-> h, stride |-> st] :
      w \in 1..MaxDim, h \in 1..MaxDim,
      st \in { n * BytesPerPixel : n \in 1..(MaxDim + 1) } }

\* loadTexture with the stride compared after the texture is created.
loadTextureLateStrideCheck(g, opened, decoded, buf) ==
  IF ~opened
  THEN [gl |-> g, texture |-> 0, err |-> "not found"]
  ELSE IF ~decoded
  THEN [gl |-> g, texture |-> 0, err |-> "decode"]
  ELSE LET t == NewName(g.textures)
           g1 == [g EXCEPT !.textures = @ \cup {t},
                           !.active = 0,
                           !.bound[0] = t]
       IN  IF buf.stride # buf.w * BytesPerPixel
           THEN [gl |-> g1, texture |-> 0, err |-> "Unsupported stride"]
           ELSE [gl |-> [g1 EXCEPT !.uploaded = @ \cup {t}],
                 texture |-> t, err |-> "nil"]

\* loadTexture(file) in context g: os.Open succeeds or not, image.Decode
\* succeeds or not, buf is the RGBA buffer.
loadTexture(g, opened, decoded, buf) ==
  IF ~opened
  THEN [gl |-> g, texture |-> 0, err |-> "not found"]
  ELSE IF ~decoded
  THEN [gl |-> g, texture |-> 0, err |-> "decode"]
  ELSE IF buf.stride # buf.w * BytesPerPixel
  THEN [gl |-> g, texture |-> 0, err |-> "Unsupported stride"]
  ELSE LET t == NewName(g.textures)
       IN  [gl |-> [g EXCEPT !.textures = @ \cup {t},
                             !.active = 0,
                             !.bound[0] = t,
                             !.uploaded = @ \cup {t}],
            texture |-> t, err |-> "nil"]

\* The initialization failure an error of loadTexture stands for.
TextureFailure(err) ==
  CASE err = "not found" -> "texture file open"
    [] err = "decode" -> "image decode"
    [] err = "Unsupported stride" -> "unsupported stride"
    [] OTHER -> "none"

\* texture1, err := loadTexture("container.jpg") and, in the two-texture
\* program, texture2, err := loadTexture("awesomeface.png").
LoadTexture(k) ==
  /\ pc = IF k = 1 THEN "loadTexture1" ELSE "loadTexture2"
  /\ \E opened \in BOOLEAN, decoded \in BOOLEAN, buf \in Buffers :
       \* one choice for each way to fail
       /\ ~opened => (decoded /\ buf = [w |-> 1, h |-> 1, stride |-> 4])
       /\ ~decoded => buf = [w |-> 1, h |-> 1, stride |-> 4]
       /\ LET r == loadTexture(gl, opened, decoded, buf)
          IN  /\ gl' = r.gl
              /\ texture' = r.texture
              /\ texErr' = r.err
              /\ rgba' = IF opened /\ decoded THEN buf ELSE rgba
              /\ failure' = IF r.err = "nil" THEN failure
                            ELSE TextureFailure(r.err)
  /\ Goto(IF k = 1 THEN "textureCheck1" ELSE "textureCheck2")
  /\ UNCHANGED <<nTextures, shaderVars, vao, texture1, texture2, timeVars,
                 loopVars, uniformLog>>

\* TextureCheck with the error of loadTexture ignored.
TextureCheckIgnoringError(k) ==
  /\ pc = IF k = 1 THEN "textureCheck1" ELSE "textureCheck2"
  /\ Goto(IF k = 1 /\ nTextures = 2 THEN "loadTexture2" ELSE "startClock")
  /\ texture1' = IF k = 1 THEN texture ELSE texture1
  /\ texture2' = IF k = 2 THEN texture ELSE texture2
  /\ UNCHANGED <<nTextures, failure, gl, shaderVars, vao, texture, texErr,
                 rgba, timeVars, loopVars, uniformLog>>

\* if err != nil { log.Fatalln(err) }, after either loadTexture.
TextureCheck(k) ==
  /\ pc = IF k = 1 THEN "textureCheck1" ELSE "textureCheck2"
  /\ IF texErr # "nil"
     THEN /\ LogFatal
          /\ UNCHANGED <<texture1, texture2>>
     ELSE /\ Goto(IF k = 1 /\ nTextures = 2 THEN "loadTexture2"
                  ELSE "startClock")
          /\ texture1' = IF k = 1 THEN texture ELSE texture1
          /\ texture2' = IF k = 2 THEN texture ELSE texture2
  /\ UNCHANGED <<nTextures, failure, gl, shaderVars, vao, texture, texErr,
                 rgba, timeVars, loopVars, uniformLog>>

\* angle := 0.0; previousTime := glfw.GetTime().
StartClock ==
  /\ pc = "startClock"
  /\ \E t \in ClockValues(0) :
       /\ previousTime' = t
       /\ startTime' = t
  /\ angle' = 0
  /\ Goto("loopCheck")
  /\ UNCHANGED <<nTextures, failure, gl, shaderVars, vao, texVars, deltaTime,
                 inexact, loopVars, uniformLog>>

(***************************************************************************)
(* The render loop.                                                        *)
(***************************************************************************)
InLoop ==
  pc \in {"clear", "getTime", "bindTextures", "useProgram", "updateAngle",
          "uploadMatrices", "bindVertexArray", "drawArrays", "swapBuffers",
          "pollEvents"}

\* LoopCheck with the condition negated: for window.ShouldClose().
LoopCheckNegated ==
  /\ pc = "loopCheck"
  /\ IF ~shouldClose
     THEN /\ ReturnFromMain
          /\ UNCHANGED <<frames, frame>>
     ELSE /\ Goto("clear")
          /\ frames' = frames + 1
          /\ frame' = <<>>
  /\ UNCHANGED <<nTextures, failure, gl, shaderVars, vao, texVars, timeVars,
                 shouldClose, draws, uniformLog>>

\* for !window.ShouldClose(): the next iteration, or the return from main.
LoopCheck ==
  /\ pc = "loopCheck"
  /\ IF shouldClose
     THEN /\ ReturnFromMain
          /\ UNCHANGED <<frames, frame>>
     ELSE /\ Goto("clear")
          /\ frames' = frames + 1
          /\ frame' = <<>>
  /\ UNCHANGED <<nTextures, failure, gl, shaderVars, vao, texVars, timeVars,
                 shouldClose, draws, uniformLog>>

\* gl.ClearColor and gl.Clear.
Clear ==
  /\ pc = "clear"
  /\ frame' = Append(frame, "Clear")
  /\ Goto("getTime")
  /\ UNCHANGED <<nTextures, failure, gl, shaderVars, vao, texVars, timeVars,
                 shouldClose, frames, draws, uniformLog>>

\* GetTime without previousTime = time.
GetTimeKeepingPrevious ==
  /\ pc = "getTime"
  /\ \E time \in ClockValues(previousTime) :
       /\ deltaTime' = FloatSub(time, previousTime)
       /\ inexact' = (inexact \/ FloatSub(time, previousTime) # time - previousTime)
  /\ frame' = Append(frame, "GetTime")
  /\ Goto("bindTextures")
  /\ UNCHANGED <<nTextures, failure, gl, shaderVars, vao, texVars, angle,
                 previousTime, startTime, shouldClose, frames, draws,
                 uniformLog>>

\* time := glfw.GetTime(); deltaTime := time - previousTime;
\* previousTime = time.
GetTime ==
  /\ pc = "getTime"
  /\ \E time \in ClockValues(previousTime) :
       /\ deltaTime' = FloatSub(time, previousTime)
       /\ previousTime' = time
       /\ inexact' = (inexact \/ FloatSub(time, previousTime) # time - previousTime)
  /\ frame' = Append(frame, "GetTime")
  /\ Goto("bindTextures")
  /\ UNCHANGED <<nTextures, failure, gl, shaderVars, vao, texVars, angle,
                 startTime, shouldClose, frames, draws, uniformLog>>

\* gl.ActiveTexture(gl.TEXTURE0 + unit); gl.BindTexture(gl.TEXTURE_2D, t).
BindTextureAt(g, unit, t) ==
  [g EXCEPT !.active = unit, !.bound[unit] = t]

\* BindTextures without the gl.ActiveTexture calls: both textures go to the
\* unit that is active.
BindTexturesOnActiveUnit ==
  /\ pc = "bindTextures"
  /\ IF nTextures = 2
     THEN /\ gl' = BindTextureAt(BindTextureAt(gl, gl.active, texture1),
                                 gl.active, texture2)
          /\ frame' = frame \o <<"BindTexture", "BindTexture">>
     ELSE /\ gl' = BindTextureAt(gl, gl.active, texture1)
          /\ frame' = Append(frame, "BindTexture")
  /\ Goto("useProgram")
  /\ UNCHANGED <<nTextures, failure, shaderVars, vao, texVars, timeVars,
                 shouldClose, frames, draws, uniformLog>>

\* texture1 on unit 0 and, in the two-texture program, texture2 on unit 1.
BindTextures ==
  /\ pc = "bindTextures"
  /\ IF nTextures = 2
     THEN /\ gl' = BindTextureAt(BindTextureAt(gl, 0, texture1), 1, texture2)
          /\ frame' = frame \o <<"BindTexture", "BindTexture">>
     ELSE /\ gl' = BindTextureAt(gl, 0, texture1)
          /\ frame' = Append(frame, "BindTexture")
  /\ Goto("useProgram")
  /\ UNCHANGED <<nTextures, failure, shaderVars, vao, texVars, timeVars,
                 shouldClose, frames, draws, uniformLog>>

\* The loop without its gl.UseProgram(program).
UseProgramOmitted ==
  /\ pc = "useProgram"
  /\ Goto("updateAngle")
  /\ UNCHANGED <<nTextures, failure, gl, shaderVars, vao, texVars, timeVars,
                 loopVars, uniformLog>>

\* gl.UseProgram(program), in the loop.
UseProgram ==
  /\ pc = "useProgram"
  /\ gl' = [gl EXCEPT !.current = program]
  /\ frame' = Append(frame, "UseProgram")
  /\ Goto("updateAngle")
  /\ UNCHANGED <<nTextures, failure, shaderVars, vao, texVars, timeVars,
                 shouldClose, frames, draws, uniformLog>>

\* angle += deltaTime.
UpdateAngle ==
  /\ pc = "updateAngle"
  /\ angle' = FloatAdd(angle, deltaTime)
  /\ inexact' = (inexact \/ FloatAdd(angle, deltaTime) # angle + deltaTime)
  /\ Goto("uploadMatrices")
  /\ UNCHANGED <<nTextures, failure, gl, shaderVars, vao, texVars,
                 previousTime, deltaTime, startTime, loopVars, uniformLog>>

\* The three matrices and their gl.UniformMatrix4fv, in the order model,
\* view, projection.
UploadMatrices ==
  /\ pc = "uploadMatrices"
  /\ LET g1 == Uniform(gl, "model", "matrix")
         g2 == Uniform(g1, "view", "matrix")
     IN  /\ gl' = Uniform(g2, "projection", "matrix")
         /\ uniformLog' = uniformLog \cup
              {Written(gl, "model"), Written(g1, "view"),
               Written(g2, "projection")}
  /\ frame' = frame \o <<"Uniform model", "Uniform view", "Uniform projection">>
  /\ Goto("bindVertexArray")
  /\ UNCHANGED <<nTextures, failure, shaderVars, vao, texVars, timeVars,
                 shouldClose, frames, draws>>

\* gl.BindVertexArray(vao).
BindVertexArray ==
  /\ pc = "bindVertexArray"
  /\ gl' = [gl EXCEPT !.boundVAO = vao]
  /\ frame' = Append(frame, "BindVertexArray")
  /\ Goto("drawArrays")
  /\ UNCHANGED <<nTextures, failure, shaderVars, vao, texVars, timeVars,
                 shouldClose, frames, draws, uniformLog>>

\* What draws keeps of a gl.DrawArrays(gl.TRIANGLES, first, count) issued in
\* context g.
Drawn(g, first, count) ==
  [first |-> first, count |-> count, program |-> g.current,
   unit0 |-> g.bound[0], unit1 |-> g.bound[1], active |-> g.active]

\* DrawArrays with the vertex count of one face.
DrawArraysOneFace ==
  /\ pc = "drawArrays"
  /\ draws' = Append(draws, Drawn(gl, 0, 2 * 3))
  /\ frame' = Append(frame, "DrawArrays")
  /\ Goto("swapBuffers")
  /\ UNCHANGED <<nTextures, failure, gl, shaderVars, vao, texVars, timeVars,
                 shouldClose, frames, uniformLog>>

\* gl.DrawArrays(gl.TRIANGLES, 0, 6*2*3).
DrawArrays ==
  /\ pc = "drawArrays"
  /\ draws' = Append(draws, Drawn(gl, 0, DrawCount))
  /\ frame' = Append(frame, "DrawArrays")
  /\ Goto("swapBuffers")
  /\ UNCHANGED <<nTextures, failure, gl, shaderVars, vao, texVars, timeVars,
                 shouldClose, frames, uniformLog>>

\* window.SwapBuffers().
SwapBuffers ==
  /\ pc = "swapBuffers"
  /\ frame' = Append(frame, "SwapBuffers")
  /\ Goto("pollEvents")
  /\ UNCHANGED <<nTextures, failure, gl, shaderVars, vao, texVars, timeVars,
                 shouldClose, frames, draws, uniformLog>>

\* glfw.PollEvents(): a close request, if one is pending, sets the window's
\* close flag.  One arrives by the time MaxFrames frames are drawn.
PollEvents ==
  /\ pc = "pollEvents"
  /\ shouldClose' \in (IF frames >= MaxFrames THEN {TRUE} ELSE BOOLEAN)
  /\ frame' = Append(frame, "PollEvents")
  /\ Goto("loopCheck")
  /\ UNCHANGED <<nTextures, failure, gl, shaderVars, vao, texVars, timeVars,
                 frames, draws, uniformLog>>

Next ==
  \/ GlfwInit
  \/ CreateWindow
  \/ GlInit
  \/ ReadVertFile
  \/ ReadFragFile
  \/ CompileVertexStage
  \/ CompileFragmentStage
  \/ LinkProgram
  \/ ProgramCheck
  \/ Setup
  \/ TextureUniforms
  \/ LoadTexture(1)
  \/ LoadTexture(2)
  \/ TextureCheck(1)
  \/ TextureCheck(2)
  \/ StartClock
  \/ LoopCheck
  \/ Clear
  \/ GetTime
  \/ BindTextures
  \/ UseProgram
  \/ UpdateAngle
  \/ UploadMatrices
  \/ BindVertexArray
  \/ DrawArrays
  \/ SwapBuffers
  \/ PollEvents

Spec == Init /\ [][Next]_vars

(***************************************************************************)
(* The properties.                                                         *)
(***************************************************************************)
\* Where main waits with an error returned by a callee it is about to check.
ErrorPending ==
  \/ pc = "programCheck" /\ progErr # "nil"
  \/ pc \in {"textureCheck1", "textureCheck2"} /\ texErr # "nil"

\* C1: after any initialization failure (GLFW init, window creation, GL
\* init, shader file read, shader compile, program link, texture file open,
\* image decode, unsupported stride) the process ends with a non-zero exit
\* status: the failure has ended it already or is the error main is about to
\* check, the only step left is the exit, no iteration of the render loop is
\* begun and no gl.DrawArrays is issued; a texture file that cannot be opened
\* makes loadTexture return handle 0 and the "not found" error.
InitFailureIsFatal ==
  /\ [](failure # "none" =>
          /\ draws = <<>>
          /\ frames = 0
          /\ ~InLoop
          /\ pc = "exited" \/ ErrorPending
          /\ pc = "exited" => exitStatus \in {ExitFatal, ExitPanic}
          /\ failure = "texture file open" =>
               (texErr = "not found" /\ texture = 0))
  /\ [][failure # "none" =>
          (pc' = "exited" /\ exitStatus' \in {ExitFatal, ExitPanic}
             /\ draws' = <<>>)]_vars

\* C1's case: container.jpg or awesomeface.png could not be opened, and the
\* process has exited with log.Fatalln's status before any draw.
TextureNotFoundExit ==
  /\ pc = "exited"
  /\ failure = "texture file open"
  /\ texErr = "not found"
  /\ exitStatus = ExitFatal
  /\ draws = <<>>

\* C2: when shaderProgFromFile has returned, its handle is non-zero exactly
\* when its error is nil, and then the vertex stage compiled, the fragment
\* stage compiled, both are attached and the program is linked; a program
\* object exists only once both stages have compiled, and no fragment stage
\* is created after a vertex stage that failed to compile.
ShaderProgramAtomic ==
  /\ pc = "programCheck" => ((progErr = "nil") <=> (program # 0))
  /\ program # 0 =>
       /\ program \in gl.linked
       /\ fragShader \in gl.vertexStage \cap gl.compiled
       /\ vertShader \in gl.fragmentStage \cap gl.compiled
       /\ {vertShader, fragShader} \subseteq gl.attached
  /\ gl.programs # {} =>
       /\ gl.vertexStage \cap gl.compiled # {}
       /\ gl.fragmentStage \cap gl.compiled # {}
  /\ gl.vertexStage \ gl.compiled # {} => gl.fragmentStage = {}

\* C2's case: the link failed, so a program object exists and the caller
\* got handle 0 with the link error.
LinkFailureReturned ==
  /\ pc = "programCheck"
  /\ progErr = "failed to link program"
  /\ program = 0
  /\ gl.programs # {}
  /\ gl.linked = {}

MatrixUniforms == {"Uniform model", "Uniform view", "Uniform projection"}

\* C3: every uniform write of the run, the texture-unit uniforms at startup
\* and the matrices of each frame, is made while the linked program is
\* current; within an iteration each matrix write comes after that
\* iteration's gl.UseProgram and before its gl.DrawArrays, and the draw
\* comes after all three.
UniformsWhileProgramBound ==
  /\ \A u \in uniformLog : u.current = program /\ program \in gl.linked
  /\ \A i \in 1..Len(frame) :
       frame[i] \in MatrixUniforms =>
         /\ \E j \in 1..(i - 1) : frame[j] = "UseProgram"
         /\ \A j \in 1..(i - 1) : frame[j] # "DrawArrays"
  /\ \A i \in 1..Len(frame) :
       frame[i] = "DrawArrays" =>
         \A m \in MatrixUniforms : \E j \in 1..(i - 1) : frame[j] = m

\* C3's case: the second frame has drawn, after the startup writes and the
\* three matrix writes.
SecondFrameDrawn ==
  /\ pc = "swapBuffers"
  /\ frames = 2
  /\ {u.name : u \in uniformLog} =
       {"model", "view", "projection"} \cup
       (IF nTextures = 2 THEN {"texture1", "texture2"} ELSE {"texture1"})

\* Between the clock reading and angle += deltaTime, previousTime is ahead
\* of angle by the frame's delta.
AngleCurrent == pc \notin {"bindTextures", "useProgram", "updateAngle"}

\* C4 as stated: the angle equals the latest clock reading minus the reading
\* taken just before the loop, computed as the program would compute it in
\* one subtraction, whatever the split into frames.
AngleTelescopes ==
  AngleCurrent => angle = FloatSub(previousTime, startTime)

\* C4, amended: the angle is 0 until the first frame, never decreases, and
\* equals the latest clock reading minus the reading taken just before the
\* loop as long as no subtraction or addition of the loop was rounded.
AngleTelescopesWhenExact ==
  /\ [](frames = 0 => angle = 0)
  /\ []((AngleCurrent /\ ~inexact) => angle = previousTime - startTime)
  /\ [][angle' >= angle]_vars

\* C4's case: two frames with time passing, nothing rounded.
TwoExactFrames ==
  /\ pc = "loopCheck"
  /\ frames = 2
  /\ ~inexact
  /\ startTime > 0
  /\ angle > deltaTime
  /\ deltaTime > 0
  /\ angle = previousTime - startTime

\* C5: the loop is left only by the check at the start of an iteration
\* finding the close flag set, which returns from main with glfw.Terminate
\* run and status 0; while the flag is clear the check starts an iteration;
\* a step inside an iteration leads to the next step of the iteration or
\* back to the check; and nothing happens after the exit.
LoopEndsOnlyOnClose ==
  /\ []((pc = "exited" /\ failure = "none") =>
          (shouldClose /\ exitStatus = ExitOK /\ glfwTerminated))
  /\ [][(pc = "loopCheck" /\ ~shouldClose) => pc' = "clear"]_vars
  /\ [][(pc = "loopCheck" /\ shouldClose) =>
          (pc' = "exited" /\ exitStatus' = ExitOK /\ glfwTerminated'
             /\ draws' = draws)]_vars
  /\ [][InLoop => (InLoop' \/ pc' = "loopCheck")]_vars
  /\ [][pc # "exited"]_vars

\* C5's case: the window was closed after two frames and the process has
\* exited.
ClosedAfterTwoFrames ==
  /\ pc = "exited"
  /\ frames = 2
  /\ Len(draws) = 2
  /\ shouldClose
  /\ exitStatus = ExitOK
  /\ glfwTerminated

\* C6 as stated: once shaderProgFromFile has returned a program, no shader
\* object exists any more.
ShadersReleasedAfterLink ==
  (program # 0 /\ progErr = "nil") => gl.shaders = {}

\* C7: whatever the width and height, a buffer whose stride is not width*4
\* makes loadTexture return handle 0 and the "Unsupported stride" error, with
\* no texture object created, bound or uploaded by the call.
UnsupportedStrideRejected ==
  \A k \in 1..2 :
    (/\ pc = (IF k = 1 THEN "textureCheck1" ELSE "textureCheck2")
     /\ rgba.stride # rgba.w * BytesPerPixel) =>
       /\ texErr = "Unsupported stride"
       /\ texture = 0
       /\ Cardinality(gl.textures) = k - 1
       /\ gl.uploaded = gl.textures
       /\ gl.bound[0] \in gl.textures \cup {NoTexture}
       /\ gl.bound[0] = (IF k = 1 THEN NoTexture ELSE texture1)

\* C7's case: the second image, two pixels wide, came with a stride of 12.
PaddedSecondTexture ==
  /\ pc = "textureCheck2"
  /\ rgba.w = 2
  /\ rgba.stride = 12
  /\ texErr = "Unsupported stride"
  /\ gl.textures = {texture1}

\* The calls of one iteration, in order.
FrameCalls ==
  <<"Clear", "GetTime">>
  \o (IF nTextures = 2 THEN <<"BindTexture", "BindTexture">>
      ELSE <<"BindTexture">>)
  \o <<"UseProgram", "Uniform model", "Uniform view", "Uniform projection",
       "BindVertexArray", "DrawArrays", "SwapBuffers", "PollEvents">>

\* C8: the calls of an iteration are a prefix of clear, read time, bind
\* textures, use program, upload matrices, bind vertex array, draw, swap,
\* poll, and all of them once it is over; each iteration has issued one draw
\* once it is past gl.DrawArrays; every draw starts at vertex 0 and submits
\* 36 vertices, which is the whole buffer: cubeVertices has 180 floats, 36
\* vertices of 5, and 36 is a multiple of 3.
OneDrawPerFrame ==
  /\ Len(frame) <= Len(FrameCalls)
  /\ frame = SubSeq(FrameCalls, 1, Len(frame))
  /\ (pc = "loopCheck" /\ frames > 0) => frame = FrameCalls
  /\ Len(draws) =
       IF InLoop /\ pc \notin {"swapBuffers", "pollEvents"}
       THEN frames - 1 ELSE frames
  /\ \A i \in 1..Len(draws) :
       /\ draws[i].first = 0
       /\ draws[i].count = 36
       /\ draws[i].count * FloatsPerVertex = gl.bufferLen
  /\ Len(cubeVertices) = 180
  /\ Len(cubeVertices) = 36 * FloatsPerVertex
  /\ 36 % 3 = 0

\* C8's case: two iterations are over, with two draws.
TwoFramesOver ==
  /\ pc = "loopCheck"
  /\ frames = 2
  /\ Len(draws) = 2
  /\ frame = FrameCalls

\* C9: in the two-texture program every draw is issued with texture1 on
\* unit 0 and texture2 on unit 1, two different uploaded textures; when the
\* loop is entered unit 0 holds texture2 and unit 1 nothing, and after every
\* frame the active unit is unit 1.
TextureUnitsAtDraw ==
  nTextures = 2 =>
    /\ \A i \in 1..Len(draws) :
         /\ draws[i].unit0 = texture1
         /\ draws[i].unit1 = texture2
         /\ texture1 # texture2
         /\ {texture1, texture2} \subseteq gl.uploaded
    /\ (pc = "loopCheck" /\ frames = 0) =>
         /\ gl.bound[0] = texture2
         /\ gl.bound[1] = NoTexture
         /\ gl.active = 0
    /\ (pc = "loopCheck" /\ frames > 0) => gl.active = 1

\* C9's case: the second draw of the two-texture program, issued with unit 1
\* left active by the first frame.
SecondDrawTwoTextures ==
  /\ nTextures = 2
  /\ pc = "swapBuffers"
  /\ Len(draws) = 2
  /\ draws[2].unit0 = texture1
  /\ draws[2].unit1 = texture2

\* C10 as stated: whenever the process has ended after glfw.Init succeeded,
\* glfw.Terminate has run.
TerminateAlwaysRuns ==
  (pc = "exited" /\ deferred) => glfwTerminated

====
